---- MODULE Spec2Model ----
(***************************************************************************)
(* Tab / webview orchestration of src/src/App.tsx (the App component).     *)
(*                                                                         *)
(* Strings are sequences of atoms (short TLA+ strings); an atom never      *)
(* contains "-" or whitespace unless it is exactly that character, so a    *)
(* JavaScript string has one representation.  Date.now() is the variable   *)
(* clock, which advances only by Tick.                                     *)
(*                                                                         *)
(* React state: platforms, tempTabs, activeTab, showSettings, showQuickAdd *)
(* and initialized hold the state with every queued update applied;        *)
(* rendered is the snapshot of the last render, the one that event         *)
(* handler closures and effect dependency comparisons read.  Updates made  *)
(* outside a React event (the load promise, the new_tab_request listener)  *)
(* are batched and rendered later, by Render; a user event renders         *)
(* synchronously when its handler returns.                                 *)
(*                                                                         *)
(* calls, writes and event record what the last step issued.  surfaces is  *)
(* a history variable: the webviews the backend holds, kept only by the    *)
(* specification SurfaceSpec (Spec leaves it untracked).                   *)
(***************************************************************************)
EXTENDS Integers, Sequences, FiniteSets, TLC

MaxPlatforms == 2
MaxTempTabs == 2
MaxClock == 2

VARIABLES platforms, tempTabs, activeTab, showSettings, showQuickAdd,
          initialized, rendered, dirty, loadResult, fileStore, localStorage,
          clock, calls, writes, event, surfaces

vars == <<platforms, tempTabs, activeTab, showSettings, showQuickAdd,
          initialized, rendered, dirty, loadResult, fileStore, localStorage,
          clock, calls, writes, event, surfaces>>

-----------------------------------------------------------------------------
(* Strings *)

EmptyString == <<>>

Whitespace == {" "}

Schemes == {"https://", "http://"}

\* the fixed fallback label of deriveNameFromUrl and of the "+" placeholder
DefaultTabName == <<"NewTabLabel">>

RECURSIVE TrimStart(_)
TrimStart(s) ==
  IF s # <<>> /\ Head(s) \in Whitespace THEN TrimStart(Tail(s)) ELSE s

RECURSIVE TrimEnd(_)
TrimEnd(s) ==
  IF s # <<>> /\ s[Len(s)] \in Whitespace
  THEN TrimEnd(SubSeq(s, 1, Len(s) - 1)) ELSE s

Trim(s) == TrimEnd(TrimStart(s))

\* !s.trim()
IsBlank(s) == Trim(s) = <<>>

LowerAtom(c) ==
  CASE c = "A" -> "a"
    [] c = "B" -> "b"
    [] OTHER -> c

ToLowerCase(s) == [i \in 1..Len(s) |-> LowerAtom(s[i])]

\* s.replace(/\s+/g, '-')
RECURSIVE ReplaceWhitespace(_)
ReplaceWhitespace(s) ==
  IF s = <<>> THEN <<>>
  ELSE IF Head(s) \in Whitespace
       THEN <<"-">> \o ReplaceWhitespace(TrimStart(s))
       ELSE <<Head(s)>> \o ReplaceWhitespace(Tail(s))

\* `${Date.now()}`
Now == <<ToString(clock)>>

HasScheme(s) == s # <<>> /\ Head(s) \in Schemes

\* normalizeUrl leaving out the scheme it should add.
normalizeUrlAsTyped(value) == Trim(value)

normalizeUrl(value) ==
  LET trimmed == Trim(value) IN
  IF trimmed = <<>> THEN <<>>
  ELSE IF HasScheme(trimmed) THEN trimmed
  ELSE <<"https://">> \o trimmed

\* new URL(value).hostname: the atoms between the scheme and the first "/"
RECURSIVE UpToSlash(_)
UpToSlash(s) ==
  IF s = <<>> \/ Head(s) = "/" THEN <<>>
  ELSE <<Head(s)>> \o UpToSlash(Tail(s))

Hostname(value) == ToLowerCase(UpToSlash(Tail(Trim(value))))

UrlParses(value) == HasScheme(Trim(value)) /\ Hostname(value) # <<>>

deriveNameFromUrl(value) ==
  IF ~UrlParses(value) THEN DefaultTabName
  ELSE LET host == Hostname(value)
           stripped == IF Head(host) = "www." THEN Tail(host) ELSE host
       IN IF stripped = <<>> THEN DefaultTabName ELSE stripped

-----------------------------------------------------------------------------
(* Platform records and their JSON form *)

\* interface Platform.  hidden?: boolean is only ever tested for truthiness
\* (p.hidden, !p.hidden), so an absent and a false flag are the one value
\* FALSE here.
Platform(id, name, url, hidden) ==
  [id |-> id, name |-> name, url |-> url, hidden |-> hidden]

IsHidden(p) == p.hidden

\* JSON.stringify: the text of one record.  A falsy flag is written as an
\* absent property or as false; both read back as falsy.
ToJson(p) ==
  IF p.hidden
  THEN [id |-> p.id, name |-> p.name, url |-> p.url, hidden |-> TRUE]
  ELSE [id |-> p.id, name |-> p.name, url |-> p.url]

FromJson(o) ==
  [id |-> o.id, name |-> o.name, url |-> o.url,
   hidden |-> IF "hidden" \in DOMAIN o THEN o.hidden ELSE FALSE]

JsonStringify(ps) ==
  [kind |-> "array", items |-> [i \in 1..Len(ps) |-> ToJson(ps[i])]]

\* JSON.parse followed by Array.isArray(parsed) && parsed.length > 0
ParsedUsable(text) == text.kind = "array" /\ Len(text.items) > 0

JsonParse(text) == [i \in 1..Len(text.items) |-> FromJson(text.items[i])]

NullText == [kind |-> "null", items |-> <<>>]
MalformedText == [kind |-> "malformed", items |-> <<>>]

Ids(ps) == {ps[i].id : i \in 1..Len(ps)}

\* ps.find(p => p.id === id): the index of the first match, 0 when none
FindIndex(ps, id) ==
  IF id \in Ids(ps)
  THEN CHOOSE i \in 1..Len(ps) :
         ps[i].id = id /\ \A j \in 1..(i - 1) : ps[j].id # id
  ELSE 0

VisiblePlatforms(ps) == SelectSeq(ps, LAMBDA p : ~IsHidden(p))

FirstId(ps) == IF Len(ps) > 0 THEN ps[1].id ELSE EmptyString

-----------------------------------------------------------------------------
(* Bridge commands (invoke) and persistence writes *)

ShowOrCreate(id, url, topOffset) ==
  [op |-> "create_or_show_webview", id |-> id, url |-> url,
   topOffset |-> topOffset]

HideAll ==
  [op |-> "hide_all_webviews", id |-> <<>>, url |-> <<>>, topOffset |-> 0]

Destroy(id) ==
  [op |-> "destroy_webview", id |-> id, url |-> <<>>, topOffset |-> 0]

Reload(id) ==
  [op |-> "reload_webview", id |-> id, url |-> <<>>, topOffset |-> 0]

FileWrite(data) == [target |-> "save_platforms", data |-> data]

LocalStorageWrite(data) == [target |-> "localStorage", data |-> data]

\* savePlatformsToFile writing the file backend only.
savePlatformsToFileOnly(ps) == <<FileWrite(JsonStringify(ps))>>

\* savePlatformsToFile writing the legacy location only.
savePlatformsToLocalStorage(ps) == <<LocalStorageWrite(JsonStringify(ps))>>

savePlatformsToFile(ps) ==
  LET data == JsonStringify(ps) IN <<FileWrite(data), LocalStorageWrite(data)>>

\* The content of a store after the write attempts ws (the backend is taken
\* to accept every save_platforms call).
LastTo(ws, target, old) ==
  LET hits == SelectSeq(ws, LAMBDA w : w.target = target)
  IN IF Len(hits) > 0 THEN hits[Len(hits)].data ELSE old

\* The backend's webviews after it has handled the commands cs in order:
\* create_or_show_webview makes (or keeps) the one of that id,
\* destroy_webview closes it.
RECURSIVE SurfacesAfter(_, _)
SurfacesAfter(open, cs) ==
  IF cs = <<>> THEN open
  ELSE LET c == Head(cs) IN
       SurfacesAfter(IF c.op = "create_or_show_webview" THEN open \cup {c.id}
                     ELSE IF c.op = "destroy_webview" THEN open \ {c.id}
                     ELSE open,
                     Tail(cs))

Untracked == [tracked |-> FALSE, open |-> {}]

NoSurfaces == [tracked |-> TRUE, open |-> {}]

HasFileWrite(ws) == \E i \in 1..Len(ws) : ws[i].target = "save_platforms"

-----------------------------------------------------------------------------
(* Effects *)

\* useEffect(..., [platforms, tempTabs, activeTab]): the active tab after it
ReconcileActive(ps, ts, active) ==
  LET all == VisiblePlatforms(ps) \o ts
      i == FindIndex(ps, active)
  IN IF Len(all) > 0 /\ (active = EmptyString \/ (i # 0 /\ IsHidden(ps[i])))
     THEN all[1].id
     ELSE active

\* The save effect without its initialized guard.
SaveEffectUnguarded(ps, init) == savePlatformsToFile(ps)

\* The save effect writing every tab of the strip.
SaveEffectAllTabs(ps, init) ==
  IF init THEN savePlatformsToFile(ps \o tempTabs) ELSE <<>>

\* useEffect(..., [platforms, initialized])
SaveEffect(ps, init) == IF init THEN savePlatformsToFile(ps) ELSE <<>>

\* The webview effect without its showSettings guard.
WebviewEffectUnguarded(ps, ts, active, settings) ==
  IF active = EmptyString THEN <<>>
  ELSE LET ti == FindIndex(ts, active)
           pi == FindIndex(ps, active)
       IN IF ti = 0 /\ pi = 0 THEN <<>>
          ELSE LET platform == IF ti # 0 THEN ts[ti] ELSE ps[pi]
               IN IF IsBlank(platform.url) THEN <<HideAll>>
                  ELSE <<ShowOrCreate(platform.id, platform.url, 70)>>

\* useEffect(..., [activeTab, platforms, tempTabs, showSettings])
WebviewEffect(ps, ts, active, settings) ==
  IF settings \/ active = EmptyString THEN <<>>
  ELSE LET ti == FindIndex(ts, active)
           pi == FindIndex(ps, active)
       IN IF ti = 0 /\ pi = 0 THEN <<>>
          ELSE LET platform == IF ti # 0 THEN ts[ti] ELSE ps[pi]
               IN IF IsBlank(platform.url) THEN <<HideAll>>
                  ELSE <<ShowOrCreate(platform.id, platform.url, 70)>>

-----------------------------------------------------------------------------
(* Rendering *)

Snapshot(ps, ts, active, settings, quickAdd, init) ==
  [platforms |-> ps, tempTabs |-> ts, activeTab |-> active,
   showSettings |-> settings, showQuickAdd |-> quickAdd, initialized |-> init]

\* Some queued update has not been rendered yet.
RenderPending ==
  \/ dirty # {}
  \/ rendered # Snapshot(platforms, tempTabs, activeTab, showSettings,
                         showQuickAdd, initialized)

\* The render that follows the state updates (ps, ts, active, settings,
\* quickAdd, init; changed names the array hooks that were set), and the
\* effects it runs, compared by dependency against the previous render.  The
\* reconciliation effect may set activeTab, which renders once more and runs
\* the effects that depend on activeTab again.  hc and hw are the bridge
\* commands and writes the handler itself issued.
Commit(ev, hc, hw, ps, ts, active, settings, quickAdd, init, changed) ==
  LET arraysChanged == changed \cup dirty
      psChanged == "platforms" \in arraysChanged
      tsChanged == "tempTabs" \in arraysChanged
      activeChanged == rendered.activeTab # active
      reconciled == IF psChanged \/ tsChanged \/ activeChanged
                    THEN ReconcileActive(ps, ts, active) ELSE active
      saved == IF psChanged \/ rendered.initialized # init
               THEN SaveEffect(ps, init) ELSE <<>>
      shown == IF activeChanged \/ psChanged \/ tsChanged
                  \/ rendered.showSettings # settings
               THEN WebviewEffect(ps, ts, active, settings) ELSE <<>>
      shownAgain == IF reconciled # active
                    THEN WebviewEffect(ps, ts, reconciled, settings) ELSE <<>>
      ws == hw \o saved
  IN /\ platforms' = ps
     /\ tempTabs' = ts
     /\ activeTab' = reconciled
     /\ showSettings' = settings
     /\ showQuickAdd' = quickAdd
     /\ initialized' = init
     /\ rendered' = Snapshot(ps, ts, reconciled, settings, quickAdd, init)
     /\ dirty' = {}
     /\ calls' = hc \o shown \o shownAgain
     /\ writes' = ws
     /\ fileStore' = LastTo(ws, "save_platforms", fileStore)
     /\ localStorage' = LastTo(ws, "localStorage", localStorage)
     /\ event' = ev
     /\ surfaces' = IF surfaces.tracked
                    THEN [surfaces EXCEPT
                            !.open = SurfacesAfter(@, hc \o shown \o shownAgain)]
                    ELSE surfaces

\* A batched render of updates queued outside a React event.
Render ==
  /\ RenderPending
  /\ Commit("Render", <<>>, <<>>, platforms, tempTabs, activeTab,
            showSettings, showQuickAdd, initialized, {})
  /\ UNCHANGED <<loadResult, clock>>

-----------------------------------------------------------------------------
(* Startup load *)

\* The promise of loadPlatformsAsync has not resolved yet.  loadResult
\* records which return statement resolved it ("file", "legacy", "empty").
loadPending == loadResult = "pending"

\* loadPlatformsAsync: the list it resolves to and the write it issues.
\* invokeOk: whether invoke('load_platforms') resolved (it may reject).
LoadFromFile(invokeOk) == invokeOk /\ ParsedUsable(fileStore)

LoadFromLegacy == localStorage.kind # "null" /\ ParsedUsable(localStorage)

\* loadPlatformsAsync returning the legacy list without saving it to the
\* file backend.
loadPlatformsAsyncNoMigration(invokeOk) ==
  IF LoadFromFile(invokeOk)
  THEN [loaded |-> JsonParse(fileStore), writes |-> <<>>, from |-> "file"]
  ELSE IF LoadFromLegacy
  THEN [loaded |-> JsonParse(localStorage), writes |-> <<>>,
        from |-> "legacy"]
  ELSE [loaded |-> <<>>, writes |-> <<>>, from |-> "empty"]

loadPlatformsAsync(invokeOk) ==
  IF LoadFromFile(invokeOk)
  THEN [loaded |-> JsonParse(fileStore), writes |-> <<>>, from |-> "file"]
  ELSE IF LoadFromLegacy
  THEN [loaded |-> JsonParse(localStorage),
        writes |-> <<FileWrite(localStorage)>>, from |-> "legacy"]
  ELSE [loaded |-> <<>>, writes |-> <<>>, from |-> "empty"]

\* .then(loaded => { setPlatforms(loaded); ...; setInitialized(true) })
\* A variant that sets the initialized flag only when records were loaded.
LoadResolveInitOnData(invokeOk) ==
  LET r == loadPlatformsAsync(invokeOk) IN
  /\ loadPending
  /\ loadResult' = r.from
  /\ platforms' = r.loaded
  /\ activeTab' = IF Len(r.loaded) > 0 THEN r.loaded[1].id ELSE activeTab
  /\ initialized' = (Len(r.loaded) > 0)
  /\ dirty' = dirty \cup {"platforms"}
  /\ writes' = r.writes
  /\ fileStore' = LastTo(r.writes, "save_platforms", fileStore)
  /\ calls' = <<>>
  /\ event' = "LoadResolve"
  /\ UNCHANGED <<tempTabs, showSettings, showQuickAdd, rendered, localStorage,
                 clock, surfaces>>

LoadResolve(invokeOk) ==
  LET r == loadPlatformsAsync(invokeOk) IN
  /\ loadPending
  /\ loadResult' = r.from
  /\ platforms' = r.loaded
  /\ activeTab' = IF Len(r.loaded) > 0 THEN r.loaded[1].id ELSE activeTab
  /\ initialized' = TRUE
  /\ dirty' = dirty \cup {"platforms"}
  /\ writes' = r.writes
  /\ fileStore' = LastTo(r.writes, "save_platforms", fileStore)
  /\ calls' = <<>>
  /\ event' = "LoadResolve"
  /\ UNCHANGED <<tempTabs, showSettings, showQuickAdd, rendered, localStorage,
                 clock, surfaces>>

-----------------------------------------------------------------------------
(* The new_tab_request listener *)

TabRequestUrls == {<<>>, <<"https://", "www.", "example.com", "/", "x">>}

\* The listener leaving the active tab alone while the settings panel is
\* open.
NewTabRequestKeepsActive(url) ==
  IF url = <<>>
  THEN /\ calls' = <<>>
       /\ writes' = <<>>
       /\ event' = "NewTabRequestEmpty"
       /\ UNCHANGED <<platforms, tempTabs, activeTab, showSettings,
                      showQuickAdd, initialized, rendered, dirty, loadResult,
                      fileStore, localStorage, clock, surfaces>>
  ELSE LET id == <<"tmp", "-">> \o Now
           name == deriveNameFromUrl(url)
       IN /\ Len(tempTabs) < MaxTempTabs
          /\ tempTabs' = Append(tempTabs, Platform(id, name, url, FALSE))
          /\ activeTab' = IF showSettings THEN activeTab ELSE id
          /\ dirty' = dirty \cup {"tempTabs"}
          /\ calls' = <<>>
          /\ writes' = <<>>
          /\ event' = "NewTabRequest"
          /\ UNCHANGED <<platforms, showSettings, showQuickAdd, initialized,
                         rendered, loadResult, fileStore, localStorage, clock,
                         surfaces>>

\* event records whether the payload was empty ("NewTabRequestEmpty").
NewTabRequest(url) ==
  IF url = <<>>
  THEN /\ calls' = <<>>
       /\ writes' = <<>>
       /\ event' = "NewTabRequestEmpty"
       /\ UNCHANGED <<platforms, tempTabs, activeTab, showSettings,
                      showQuickAdd, initialized, rendered, dirty, loadResult,
                      fileStore, localStorage, clock, surfaces>>
  ELSE LET id == <<"tmp", "-">> \o Now
           name == deriveNameFromUrl(url)
       IN /\ Len(tempTabs) < MaxTempTabs
          /\ tempTabs' = Append(tempTabs, Platform(id, name, url, FALSE))
          /\ activeTab' = id
          /\ dirty' = dirty \cup {"tempTabs"}
          /\ calls' = <<>>
          /\ writes' = <<>>
          /\ event' = "NewTabRequest"
          /\ UNCHANGED <<platforms, showSettings, showQuickAdd, initialized,
                         rendered, loadResult, fileStore, localStorage, clock,
                         surfaces>>

Tick ==
  /\ clock < MaxClock
  /\ clock' = clock + 1
  /\ calls' = <<>>
  /\ writes' = <<>>
  /\ event' = "Tick"
  /\ UNCHANGED <<platforms, tempTabs, activeTab, showSettings, showQuickAdd,
                 initialized, rendered, dirty, loadResult, fileStore,
                 localStorage, surfaces>>

-----------------------------------------------------------------------------
(* User events.  A handler reads its closure (rendered) and applies        *)
(* functional updates to the queued state; React then renders (Commit).    *)

\* platforms.find(p => p.id === activeTab && !p.hidden), 0 when none
FindVisibleIndex(ps, id) ==
  IF \E i \in 1..Len(ps) : ps[i].id = id /\ ~IsHidden(ps[i])
  THEN CHOOSE i \in 1..Len(ps) :
         /\ ps[i].id = id /\ ~IsHidden(ps[i])
         /\ \A j \in 1..(i - 1) : ~(ps[j].id = id /\ ~IsHidden(ps[j]))
  ELSE 0

\* The bridge command of the closing branch of toggleSettings.
CloseSettingsCalls(ps, active) ==
  LET i == FindVisibleIndex(ps, active)
  IN IF i # 0 THEN <<ShowOrCreate(ps[i].id, ps[i].url, 78)>> ELSE <<>>

\* A variant whose opening branch leaves the quick-add popover as it is.
toggleSettingsKeepsPopover ==
  /\ IF ~rendered.showSettings
     THEN Commit("openSettings", <<HideAll>>, <<>>, platforms, tempTabs,
                 activeTab, TRUE, showQuickAdd, initialized, {})
     ELSE Commit("closeSettings",
                 CloseSettingsCalls(rendered.platforms, rendered.activeTab),
                 <<>>, platforms, tempTabs, activeTab, FALSE, showQuickAdd,
                 initialized, {})
  /\ UNCHANGED <<loadResult, clock>>

toggleSettings ==
  /\ IF ~rendered.showSettings
     THEN Commit("openSettings", <<HideAll>>, <<>>, platforms, tempTabs,
                 activeTab, TRUE, FALSE, initialized, {})
     ELSE Commit("closeSettings",
                 CloseSettingsCalls(rendered.platforms, rendered.activeTab),
                 <<>>, platforms, tempTabs, activeTab, FALSE, showQuickAdd,
                 initialized, {})
  /\ UNCHANGED <<loadResult, clock>>

\* Values typed into the add form of the settings panel.
AddNames == {<<"A">>, <<" ">>}
AddUrls == {<<"x.com">>, <<" ", "x.com", " ">>, <<" ">>}

PlatformId(newName) == ReplaceWhitespace(ToLowerCase(newName)) \o <<"-">> \o Now

\* handleAddPlatform testing the name only before it adds.
handleAddPlatformAnyUrl(newName, newUrl) ==
  /\ rendered.showSettings
  /\ IF IsBlank(newName)
     THEN Commit("addPlatformBlank", <<>>, <<>>, platforms, tempTabs,
                 activeTab, showSettings, showQuickAdd, initialized, {})
     ELSE LET id == PlatformId(newName)
              newPlatform == Platform(id, Trim(newName), normalizeUrl(newUrl),
                                      FALSE)
          IN /\ Len(platforms) < MaxPlatforms
             /\ Commit("addPlatform", <<>>, <<>>,
                       Append(platforms, newPlatform), tempTabs, id,
                       showSettings, showQuickAdd, initialized, {"platforms"})
  /\ UNCHANGED <<loadResult, clock>>

\* event records whether the handler returned at its blank test
\* ("addPlatformBlank").
handleAddPlatform(newName, newUrl) ==
  /\ rendered.showSettings
  /\ IF IsBlank(newName) \/ IsBlank(newUrl)
     THEN Commit("addPlatformBlank", <<>>, <<>>, platforms, tempTabs, activeTab,
                 showSettings, showQuickAdd, initialized, {})
     ELSE LET id == PlatformId(newName)
              newPlatform == Platform(id, Trim(newName), normalizeUrl(newUrl),
                                      FALSE)
          IN /\ Len(platforms) < MaxPlatforms
             /\ Commit("addPlatform", <<>>, <<>>,
                       Append(platforms, newPlatform), tempTabs, id,
                       showSettings, showQuickAdd, initialized, {"platforms"})
  /\ UNCHANGED <<loadResult, clock>>

RemoveById(ps, id) == SelectSeq(ps, LAMBDA p : p.id # id)

handleRemovePlatform(id) ==
  LET updated == RemoveById(platforms, id)
      active == IF rendered.activeTab = id THEN FirstId(updated) ELSE activeTab
  IN /\ rendered.showSettings
     /\ id \in Ids(rendered.platforms)
     /\ Commit("removePlatform", <<Destroy(id)>>, <<>>, updated, tempTabs,
               active, showSettings, showQuickAdd, initialized, {"platforms"})
     /\ UNCHANGED <<loadResult, clock>>

\* The updater wrapping around at the ends of the list.
MovePlatformWraps(prev, index, direction) ==
  LET other == IF direction = "up"
               THEN IF index > 1 THEN index - 1 ELSE Len(prev)
               ELSE IF index < Len(prev) THEN index + 1 ELSE 1
  IN [prev EXCEPT ![index] = prev[other], ![other] = prev[index]]

\* The updater of handleMovePlatform; index counts from 1 here, so the
\* source's index > 0 is index > 1 and index < length - 1 is index < Len.
MovePlatform(prev, index, direction) ==
  IF direction = "up" /\ index > 1 /\ index <= Len(prev)
  THEN [prev EXCEPT ![index - 1] = prev[index], ![index] = prev[index - 1]]
  ELSE IF direction = "down" /\ index < Len(prev)
  THEN [prev EXCEPT ![index] = prev[index + 1], ![index + 1] = prev[index]]
  ELSE prev

\* The panel disables "up" on the first row and "down" on the last one.
MoveEnabled(index, direction) ==
  /\ index \in 1..Len(rendered.platforms)
  /\ direction = "up" => index # 1
  /\ direction = "down" => index # Len(rendered.platforms)

handleMovePlatform(index, direction) ==
  /\ rendered.showSettings
  /\ MoveEnabled(index, direction)
  /\ Commit("movePlatform", <<>>, <<>>,
            MovePlatform(platforms, index, direction), tempTabs, activeTab,
            showSettings, showQuickAdd, initialized, {"platforms"})
  /\ UNCHANGED <<loadResult, clock>>

\* handleMovePlatform called for any row, as the function itself allows
\* (the buttons' disabled attribute aside).
handleMovePlatformAt(index, direction) ==
  /\ rendered.showSettings
  /\ index \in 1..Len(rendered.platforms)
  /\ Commit("movePlatform", <<>>, <<>>,
            MovePlatform(platforms, index, direction), tempTabs, activeTab,
            showSettings, showQuickAdd, initialized, {"platforms"})
  /\ UNCHANGED <<loadResult, clock>>

\* The tabs of the strip, as rendered.
StripIds == Ids(VisiblePlatforms(rendered.platforms)) \cup Ids(rendered.tempTabs)

selectTab(id) ==
  /\ id \in StripIds
  /\ Commit("selectTab", <<>>, <<>>, platforms, tempTabs, id, showSettings,
            showQuickAdd, initialized, {})
  /\ UNCHANGED <<loadResult, clock>>

handleReloadPlatform(id) ==
  /\ id \in StripIds
  /\ rendered.activeTab = id
  /\ Commit("reloadPlatform", <<Reload(id)>>, <<>>, platforms, tempTabs,
            activeTab, showSettings, showQuickAdd, initialized, {})
  /\ UNCHANGED <<loadResult, clock>>

HideById(ps, id) ==
  [i \in 1..Len(ps) |->
     IF ps[i].id = id THEN [ps[i] EXCEPT !.hidden = TRUE] ELSE ps[i]]

\* handleCloseTab keeping the webview of a persistent tab it hides: destroy
\* is issued for ephemeral tabs only.
handleCloseTabKeepWarm(id) ==
  /\ id \in StripIds
  /\ IF id \in Ids(rendered.tempTabs)
     THEN LET tempAfter == RemoveById(rendered.tempTabs, id)
              combined == rendered.platforms \o tempAfter
              active == IF rendered.activeTab = id THEN FirstId(combined)
                        ELSE activeTab
          IN Commit("closeTab", <<Destroy(id)>>, <<>>, platforms, tempAfter,
                    active, showSettings, showQuickAdd, initialized,
                    {"tempTabs"})
     ELSE LET updated == HideById(platforms, id)
              combined == VisiblePlatforms(updated) \o rendered.tempTabs
              active == IF rendered.activeTab = id THEN FirstId(combined)
                        ELSE activeTab
          IN Commit("closeTab", <<>>, <<>>, updated, tempTabs,
                    active, showSettings, showQuickAdd, initialized,
                    {"platforms"})
  /\ UNCHANGED <<loadResult, clock>>

handleCloseTab(id) ==
  /\ id \in StripIds
  /\ IF id \in Ids(rendered.tempTabs)
     THEN LET tempAfter == RemoveById(rendered.tempTabs, id)
              combined == rendered.platforms \o tempAfter
              active == IF rendered.activeTab = id THEN FirstId(combined)
                        ELSE activeTab
          IN Commit("closeTab", <<Destroy(id)>>, <<>>, platforms, tempAfter,
                    active, showSettings, showQuickAdd, initialized,
                    {"tempTabs"})
     ELSE LET updated == HideById(platforms, id)
              combined == VisiblePlatforms(updated) \o rendered.tempTabs
              active == IF rendered.activeTab = id THEN FirstId(combined)
                        ELSE activeTab
          IN Commit("closeTab", <<Destroy(id)>>, <<>>, updated, tempTabs,
                    active, showSettings, showQuickAdd, initialized,
                    {"platforms"})
  /\ UNCHANGED <<loadResult, clock>>

ShowById(ps, id) ==
  [i \in 1..Len(ps) |->
     IF ps[i].id = id THEN [ps[i] EXCEPT !.hidden = FALSE] ELSE ps[i]]

\* onClick of a row of the panel list; i is the row
panelItemClick(i) ==
  /\ rendered.showSettings
  /\ i \in 1..Len(rendered.platforms)
  /\ LET p == rendered.platforms[i] IN
       IF IsHidden(p)
       THEN Commit("panelItemClick", <<>>, <<>>, ShowById(platforms, p.id),
                   tempTabs, p.id, showSettings, showQuickAdd, initialized,
                   {"platforms"})
       ELSE Commit("panelItemClick", <<>>, <<>>, platforms, tempTabs,
                   activeTab, showSettings, showQuickAdd, initialized, {})
  /\ UNCHANGED <<loadResult, clock>>

-----------------------------------------------------------------------------
(* The "+" button and its popover *)

\* onClick of tab-add-button (disabled while the settings panel is open)
addButtonClick ==
  /\ ~rendered.showSettings
  /\ IF ~rendered.showQuickAdd
     THEN LET id == <<"tmp", "-", "new", "-">> \o Now IN
          /\ Len(tempTabs) < MaxTempTabs
          /\ Commit("addButtonClick", <<>>, <<>>, platforms,
                    Append(tempTabs,
                           Platform(id, DefaultTabName, <<>>, FALSE)),
                    id, showSettings, TRUE, initialized, {"tempTabs"})
     ELSE Commit("addButtonClick", <<>>, <<>>, platforms, tempTabs, activeTab,
                 showSettings, TRUE, initialized, {})
  /\ UNCHANGED <<loadResult, clock>>

\* Values typed into the popover.
QuickNames == {<<>>}
QuickUrls == {<<>>, <<"x.com">>}

\* tempTabs.find(p => p.id === activeTab) is a placeholder (blank url):
\* its index in the rendered tempTabs, 0 otherwise
CurrentPlaceholder ==
  LET i == FindIndex(rendered.tempTabs, rendered.activeTab)
  IN IF i # 0 /\ IsBlank(rendered.tempTabs[i].url) THEN i ELSE 0

QuickAddId(quickName, displayName) ==
  LET named == IF Trim(quickName) # <<>> THEN Trim(quickName) ELSE displayName
      slug == ReplaceWhitespace(ToLowerCase(named))
      baseId == IF slug # <<>> THEN slug ELSE <<"tmp">>
  IN <<"tmp", "-">> \o baseId \o <<"-">> \o Now

\* A variant that moves the filled rows behind the others.
FillByIdAtEnd(ts, id, displayName, finalUrl) ==
  LET IsNamed(t) == t.id = id
      IsOther(t) == t.id # id
      filled == SelectSeq(ts, IsNamed)
  IN SelectSeq(ts, IsOther) \o
     [i \in 1..Len(filled) |->
        [filled[i] EXCEPT !.name = displayName, !.url = finalUrl]]

FillById(ts, id, displayName, finalUrl) ==
  [i \in 1..Len(ts) |->
     IF ts[i].id = id
     THEN [ts[i] EXCEPT !.name = displayName, !.url = finalUrl]
     ELSE ts[i]]

\* onClick of tab-add-confirm and Enter in the url input (the same code);
\* event records whether it returned at its blank-url test
\* ("quickAddConfirmBlank")
quickAddConfirm(quickName, quickUrl) ==
  LET finalUrl == normalizeUrl(quickUrl)
      displayName == IF Trim(quickName) # <<>> THEN Trim(quickName)
                     ELSE deriveNameFromUrl(finalUrl)
      i == CurrentPlaceholder
  IN /\ rendered.showQuickAdd
     /\ IF finalUrl = <<>>
        THEN Commit("quickAddConfirmBlank", <<>>, <<>>, platforms,
                    tempTabs, activeTab, showSettings, showQuickAdd, initialized, {})
        ELSE IF i # 0
        THEN Commit("quickAddConfirm", <<>>, <<>>, platforms,
                    FillById(tempTabs, rendered.tempTabs[i].id, displayName,
                             finalUrl),
                    activeTab, showSettings, FALSE, initialized, {"tempTabs"})
        ELSE LET id == QuickAddId(quickName, displayName) IN
             /\ Len(tempTabs) < MaxTempTabs
             /\ Commit("quickAddConfirm", <<>>, <<>>, platforms,
                       Append(tempTabs,
                              Platform(id, displayName, finalUrl, FALSE)),
                       id, showSettings, FALSE, initialized, {"tempTabs"})
     /\ UNCHANGED <<loadResult, clock>>

\* onClick of tab-add-cancel and of tab-add-backdrop (the same code)
quickAddCancel ==
  /\ rendered.showQuickAdd
  /\ IF CurrentPlaceholder # 0
     THEN LET updated == RemoveById(tempTabs, rendered.activeTab)
              next == rendered.platforms \o updated
          IN Commit("quickAddCancel", <<>>, <<>>, platforms, updated,
                    FirstId(next), showSettings, FALSE, initialized,
                    {"tempTabs"})
     ELSE Commit("quickAddCancel", <<>>, <<>>, platforms, tempTabs, activeTab,
                 showSettings, FALSE, initialized, {})
  /\ UNCHANGED <<loadResult, clock>>

-----------------------------------------------------------------------------
(* Stores at startup *)

StoredB == Platform(<<"b", "-", "0">>, <<"B">>, <<"https://", "b.com">>, TRUE)
StoredBlank == Platform(<<"c", "-", "0">>, <<"C">>, <<>>, FALSE)
StoredL == Platform(<<"l", "-", "0">>, <<"L">>, <<"https://", "l.com">>,
                    FALSE)

\* (primary file, legacy localStorage) at startup
InitialStores ==
  {<<JsonStringify(<<>>), NullText>>,
   <<JsonStringify(<<StoredB, StoredBlank>>), NullText>>,
   <<MalformedText, JsonStringify(<<StoredL>>)>>}

\* The state after the first render and its effects: the load is in flight.
Mounted ==
  /\ platforms = <<>>
  /\ tempTabs = <<>>
  /\ activeTab = EmptyString
  /\ showSettings = FALSE
  /\ showQuickAdd = FALSE
  /\ initialized = FALSE
  /\ rendered = Snapshot(<<>>, <<>>, EmptyString, FALSE, FALSE, FALSE)
  /\ dirty = {}
  /\ loadResult = "pending"
  /\ clock = 1
  /\ calls = <<>>
  /\ writes = <<>>
  /\ event = "mount"

Init ==
  /\ Mounted
  /\ \E stores \in InitialStores :
       fileStore = stores[1] /\ localStorage = stores[2]
  /\ surfaces = Untracked

Next ==
  \/ Render
  \/ \E invokeOk \in BOOLEAN : LoadResolve(invokeOk)
  \/ \E url \in TabRequestUrls : NewTabRequest(url)
  \/ Tick
  \/ toggleSettings
  \/ \E newName \in AddNames, newUrl \in AddUrls :
       handleAddPlatform(newName, newUrl)
  \/ \E id \in Ids(rendered.platforms) : handleRemovePlatform(id)
  \/ \E index \in 1..Len(rendered.platforms), direction \in {"up", "down"} :
       handleMovePlatform(index, direction)
  \/ \E id \in StripIds : selectTab(id)
  \/ \E id \in StripIds : handleReloadPlatform(id)
  \/ \E id \in StripIds : handleCloseTab(id)
  \/ \E i \in 1..Len(rendered.platforms) : panelItemClick(i)
  \/ addButtonClick
  \/ \E quickName \in QuickNames, quickUrl \in QuickUrls :
       quickAddConfirm(quickName, quickUrl)
  \/ quickAddCancel

Spec == Init /\ [][Next]_vars

\* A first start (nothing stored yet), with the backend's webviews tracked.
SurfaceInit ==
  /\ Mounted
  /\ fileStore = JsonStringify(<<>>)
  /\ localStorage = NullText
  /\ surfaces = NoSurfaces

SurfaceSpec == SurfaceInit /\ [][Next]_vars

\* Startup over every kind of stored content, followed by the load and the
\* first edits of the registry.
ObjectText == [kind |-> "object", items |-> <<>>]

PrimaryTexts ==
  {MalformedText, ObjectText, JsonStringify(<<>>),
   JsonStringify(<<StoredB, StoredBlank>>)}

LegacyTexts ==
  {NullText, MalformedText, JsonStringify(<<>>), JsonStringify(<<StoredL>>),
   JsonStringify(<<StoredL, StoredB>>)}

MigrationInit ==
  /\ Mounted
  /\ fileStore \in PrimaryTexts
  /\ localStorage \in LegacyTexts
  /\ surfaces = Untracked

MigrationNext ==
  \/ Render
  \/ \E invokeOk \in BOOLEAN : LoadResolve(invokeOk)
  \/ toggleSettings
  \/ \E newName \in AddNames, newUrl \in AddUrls :
       handleAddPlatform(newName, newUrl)
  \/ \E id \in Ids(rendered.platforms) : handleRemovePlatform(id)

MigrationSpec == MigrationInit /\ [][MigrationNext]_vars

\* The same start and steps with the scheduling the runtime gives: the promise
\* of loadPlatformsAsync settles whatever the stores hold (both of its try
\* blocks catch and it ends in `return []`), so its then-callback runs, and
\* React renders what the callbacks queued.
LoadSpec ==
  /\ MigrationInit
  /\ [][MigrationNext]_vars
  /\ WF_vars(\E invokeOk \in BOOLEAN : LoadResolve(invokeOk))
  /\ WF_vars(Render)

\* A running application over a stored registry of up to MaxStored records
\* (the first one hidden), edited in the panel and on the tab strip.
MaxStored == 3

StoredAt(i) ==
  Platform(<<"s", "-", ToString(i)>>, <<"S", ToString(i)>>,
           <<"https://", "s.com", "/", ToString(i)>>, i = 1)

StoredRegistry(n) == [i \in 1..n |-> StoredAt(i)]

\* The state after the load of StoredRegistry(n) and its render.
MoveInit ==
  \E n \in 1..MaxStored :
    LET ps == StoredRegistry(n)
        first == ps[1].id
        active == ReconcileActive(ps, <<>>, first)
    IN /\ platforms = ps
       /\ tempTabs = <<>>
       /\ activeTab = active
       /\ showSettings = FALSE
       /\ showQuickAdd = FALSE
       /\ initialized = TRUE
       /\ rendered = Snapshot(ps, <<>>, active, FALSE, FALSE, TRUE)
       /\ dirty = {}
       /\ loadResult = "file"
       /\ fileStore = JsonStringify(ps)
       /\ localStorage = JsonStringify(ps)
       /\ clock = 1
       /\ calls = WebviewEffect(ps, <<>>, first, FALSE)
                    \o (IF active # first
                        THEN WebviewEffect(ps, <<>>, active, FALSE) ELSE <<>>)
       /\ writes = savePlatformsToFile(ps)
       /\ event = "Render"
       /\ surfaces = Untracked

MoveNext ==
  \/ \E index \in 1..Len(rendered.platforms), direction \in {"up", "down"} :
       handleMovePlatformAt(index, direction)
  \/ toggleSettings
  \/ \E id \in StripIds : selectTab(id)
  \/ \E id \in StripIds : handleCloseTab(id)
  \/ \E i \in 1..Len(rendered.platforms) : panelItemClick(i)

MoveSpec == MoveInit /\ [][MoveNext]_vars

-----------------------------------------------------------------------------
(* Properties *)

\* Non-hidden persistent tabs in registry order, then the ephemeral tabs.
VisibleSequence == VisiblePlatforms(platforms) \o tempTabs

AllTabs == platforms \o tempTabs

\* Every queued update has been rendered and the effects have run.
Settled == ~RenderPending

IsShowOrCreate(c) == c.op = "create_or_show_webview"

IsHideAll(c) == c.op = "hide_all_webviews"

Count(s, Test(_)) == Len(SelectSeq(s, Test))

\* C1: once the effects have settled, activeTab is the id of a member of the
\* visible sequence when that sequence is non-empty, and is the empty string
\* when it is empty.
C1_ActiveResolves ==
  Settled =>
    IF Len(VisibleSequence) > 0
    THEN activeTab \in Ids(VisibleSequence)
    ELSE activeTab = EmptyString

\* C2: no write of the registry is issued while the initial load is pending,
\* whatever the user does meanwhile: the stores are not written by a step
\* that ends with the load still pending.
C2_NoWriteBeforeLoad == loadPending => writes = <<>>

\* C2 witness: a registry mutation made and rendered while the load is
\* pending.
C2_MutationWhilePending ==
  /\ loadPending
  /\ event = "addPlatform"
  /\ Len(platforms) > 0
  /\ Settled

\* C3: a record of the Platform Registry stays in it until remove(id) is
\* called for it: no step other than handleRemovePlatform takes a record
\* out (before the load resolves every record was made by add).
C3_AddedStays ==
  [][event' # "removePlatform" => Ids(platforms) \subseteq Ids(platforms')]_vars


\* The ids of the records of a stored tab list (none when it is no array).
StoredIds(text) ==
  IF text.kind = "array"
  THEN {text.items[i].id : i \in 1..Len(text.items)}
  ELSE {}

\* C4: after a load that failed (nothing usable from the primary call, nothing
\* from the legacy location) while the primary store holds a non-empty list,
\* no step other than a remove by the user takes a record out of the stored
\* list.
C4_FailedLoadKeepsStore ==
  [][(loadResult = "empty" /\ ParsedUsable(fileStore)
        /\ event' # "removePlatform")
       => StoredIds(fileStore) \subseteq StoredIds(fileStore')]_vars

\* C5: every payload written to the primary store or to the legacy location
\* holds only records of the Platform Registry, never a record of the
\* Ephemeral Tab Registry.
C5_OnlyRegistryPersisted ==
  \A w \in 1..Len(writes) :
    \A k \in 1..Len(writes[w].data.items) :
      /\ \E i \in 1..Len(platforms) :
           writes[w].data.items[k] = ToJson(platforms[i])
      /\ \A j \in 1..Len(tempTabs) :
           writes[w].data.items[k] # ToJson(tempTabs[j])

\* C5 witness: a non-empty registry is written while ephemeral tabs exist.
C5_WriteWithEphemeralTabs ==
  /\ \E w \in 1..Len(writes) : Len(writes[w].data.items) > 0
  /\ Len(tempTabs) > 0
  /\ event = "closeTab"

\* C6: the ids of all persistent and ephemeral records are pairwise distinct.
C6_UniqueIds ==
  \A i, j \in 1..Len(AllTabs) : i # j => AllTabs[i].id # AllTabs[j].id


\* The active tab as the webview effect resolves it (ephemeral records
\* first), 0 records when activeTab names none: <<record>> or <<>>.
ActiveRecord ==
  LET ti == FindIndex(tempTabs, activeTab)
      pi == FindIndex(platforms, activeTab)
  IN IF ti # 0 THEN <<tempTabs[ti]>>
     ELSE IF pi # 0 THEN <<platforms[pi]>>
     ELSE <<>>

\* An active tab that is visible and has a non-blank url exists.
ActiveShowable ==
  /\ activeTab \in Ids(VisibleSequence)
  /\ ActiveRecord # <<>>
  /\ ~IsBlank(ActiveRecord[1].url)

ShowOrCreateCount == Count(calls, IsShowOrCreate)

\* C7: opening the overlay issues hideAll exactly once; closing it issues
\* showOrCreate exactly once, for the active tab, when a visible active tab
\* with a non-blank url exists, and no showOrCreate otherwise.
C7_OverlayCallsOnce ==
  /\ event = "openSettings" => Count(calls, IsHideAll) = 1
  /\ (event = "closeSettings" /\ ActiveShowable) =>
       /\ ShowOrCreateCount = 1
       /\ \A i \in 1..Len(calls) :
            IsShowOrCreate(calls[i]) => calls[i].id = activeTab
  /\ (event = "closeSettings" /\ ~ActiveShowable) => ShowOrCreateCount = 0

\* C8: while the overlay is open, no step issues showOrCreate or hideAll
\* (the step that opens the overlay aside): events that change the active tab
\* there only change activeTab.
C8_NoBridgeWhileSettingsOpen ==
  (showSettings /\ event # "openSettings") =>
    \A i \in 1..Len(calls) : ~IsShowOrCreate(calls[i]) /\ ~IsHideAll(calls[i])

\* C8 witness: the overlay is open and a hidden record has just been selected
\* in the panel, which made it the active tab.
C8_SelectWhileSettingsOpen ==
  /\ showSettings
  /\ event = "panelItemClick"
  /\ activeTab \in Ids(VisiblePlatforms(platforms))
  /\ rendered.activeTab = activeTab

\* C9: showOrCreate is never issued with a blank url.
C9_NoBlankShowOrCreate ==
  \A i \in 1..Len(calls) : IsShowOrCreate(calls[i]) => ~IsBlank(calls[i].url)

\* C10: in the Normal state, a step that changes neither the active id, nor
\* the active tab's url, nor the overlay state issues no showOrCreate, and a
\* step that activates a tab with a non-blank url issues it exactly once
\* (stated for steps between settled states in which all ids are distinct).
C10_ShowOrCreateOncePerActivation ==
  [][(~showSettings /\ ~showSettings' /\ Settled /\ Settled'
        /\ C6_UniqueIds /\ C6_UniqueIds')
       => LET n == Count(calls', IsShowOrCreate) IN
          /\ (activeTab' = activeTab /\ ActiveRecord' = ActiveRecord) => n = 0
          /\ (activeTab' # activeTab /\ ActiveShowable') => n = 1]_vars

\* The destroy_webview commands of the last step.
IsDestroy(c) == c.op = "destroy_webview"

\* C11: every remove of a persistent tab and every close of a tab (persistent
\* or ephemeral) issues destroy, and every webview the backend holds
\* (showOrCreate issued, no destroy after it) belongs to a record that is in
\* the Platform Registry or in the Ephemeral Tab Registry.
C11_SurfacesAreRecords ==
  /\ event \in {"removePlatform", "closeTab"} => Count(calls, IsDestroy) = 1
  /\ surfaces.open \subseteq Ids(AllTabs)

\* The step hides the persistent record of this id (close on the tab strip).
HiddenByStep(id) ==
  \E i \in 1..Len(platforms) :
    /\ event' = "closeTab"
    /\ platforms[i].id = id
    /\ ~IsHidden(platforms[i])
    /\ i <= Len(platforms')
    /\ platforms'[i].id = id
    /\ IsHidden(platforms'[i])

DestroyCount(cs, id) == Len(SelectSeq(cs, LAMBDA c : c = Destroy(id)))

\* C12 (as stated): hiding a persistent tab from the tab strip issues no
\* destroy for that tab.
C12_HideIssuesNoDestroy ==
  [][\A id \in Ids(platforms) :
       HiddenByStep(id) => DestroyCount(calls', id) = 0]_vars

\* C12 (amended): hiding a persistent tab from the tab strip issues destroy
\* for that tab exactly once, and the record stays in the registry.
C12_HideIssuesDestroy ==
  [][\A id \in Ids(platforms) :
       HiddenByStep(id) =>
         /\ DestroyCount(calls', id) = 1
         /\ id \in Ids(platforms')]_vars

\* C12 witness: of two visible persistent tabs the active first one has just
\* been hidden; the second one is active now and destroy was issued for the
\* first.
C12_HidActiveOfTwo ==
  /\ event = "closeTab"
  /\ Len(platforms) = 2
  /\ IsHidden(platforms[1]) /\ ~IsHidden(platforms[2])
  /\ platforms[1].id # platforms[2].id
  /\ activeTab = platforms[2].id
  /\ calls[1] = Destroy(platforms[1].id)
  /\ ~IsBlank(platforms[2].url)
  /\ calls[Len(calls)] = ShowOrCreate(platforms[2].id, platforms[2].url, 70)

\* The url of the new_tab_request events whose payload is not empty.
RequestedUrl == <<"https://", "www.", "example.com", "/", "x">>

\* C13: in any state, a new_tab_request with a non-empty url appends exactly
\* one ephemeral record carrying that url and the name derived from its host
\* ("example.com" for https://www.example.com/x), leaves the existing records
\* as they are and makes the new record's id the active id; one with an empty
\* url changes nothing.
C13_NewTabRequestOpensOne ==
  [][/\ event' = "NewTabRequest" =>
          /\ Len(tempTabs') = Len(tempTabs) + 1
          /\ SubSeq(tempTabs', 1, Len(tempTabs)) = tempTabs
          /\ tempTabs'[Len(tempTabs')].url = RequestedUrl
          /\ tempTabs'[Len(tempTabs')].name = <<"example.com">>
          /\ platforms' = platforms
          /\ activeTab' = tempTabs'[Len(tempTabs')].id
     /\ event' = "NewTabRequestEmpty" =>
          UNCHANGED <<platforms, tempTabs, activeTab, showSettings,
                      showQuickAdd, initialized, rendered>>]_vars

\* C13 witness: a request arrived while the settings panel was open over a
\* non-empty registry and another ephemeral tab; its tab is the active one.
C13_RequestWhileSettingsOpen ==
  /\ event = "NewTabRequest"
  /\ showSettings
  /\ Len(platforms) > 0
  /\ Len(tempTabs) = 2
  /\ tempTabs[2].url = RequestedUrl
  /\ activeTab = tempTabs[2].id

\* The ephemeral records that new_tab_request events made.
IsRequestedTab(t) == t.url = RequestedUrl

\* C14: the tab a new_tab_request event made stays in the Ephemeral Tab
\* Registry until it is itself closed, whatever user events (built from an
\* earlier render) interleave: it leaves tempTabs only in a closeTab step that
\* issues destroy for its id, and its event added one record, not two.
C14_RequestedTabStays ==
  [][/\ \A i \in 1..Len(tempTabs) :
          (IsRequestedTab(tempTabs[i]) /\ tempTabs[i].id \notin Ids(tempTabs'))
            => (event' = "closeTab"
                  /\ DestroyCount(calls', tempTabs[i].id) = 1)
     /\ event' = "NewTabRequest" =>
          Count(tempTabs', IsRequestedTab) = Count(tempTabs, IsRequestedTab) + 1
    ]_vars

\* The record that the stored JSON object o stands for, field by field.
SameRecord(p, o) ==
  /\ p.id = o.id /\ p.name = o.name /\ p.url = o.url
  /\ p.hidden = ("hidden" \in DOMAIN o /\ o.hidden)

\* The list ps holds exactly the records of the stored array, in order.
SameList(ps, text) ==
  /\ text.kind = "array"
  /\ Len(ps) = Len(text.items)
  /\ \A i \in 1..Len(ps) : SameRecord(ps[i], text.items[i])

\* The load took the legacy list: what it returned and what it wrote.
Migrated ==
  /\ loadResult' = "legacy"
  /\ SameList(platforms', localStorage)
  /\ writes' = <<FileWrite(localStorage)>>
  /\ fileStore' = localStorage
  /\ localStorage' = localStorage

\* C15: when the primary store yields nothing usable (error, malformed, no
\* array, empty array) and the legacy location holds a non-empty array, the
\* load returns exactly the legacy records in order and writes that same text
\* to the primary store, which then reads back as the migrated copy.
C15_LegacyMigrates ==
  [][event' = "LoadResolve" =>
       /\ (localStorage.kind = "array" /\ Len(localStorage.items) > 0
             /\ ~(fileStore.kind = "array" /\ Len(fileStore.items) > 0))
            => Migrated
       /\ loadResult' = "legacy" => Migrated]_vars

\* C15 witness: the load has just migrated a legacy list of two records.
C15_MigratedTwo ==
  /\ event = "LoadResolve"
  /\ loadResult = "legacy"
  /\ Len(platforms) = 2
  /\ platforms[1].id # platforms[2].id
  /\ fileStore = localStorage

IsLegacyWrite(w) == w.target = "localStorage"

\* C16 (as stated): the registry is never written into the legacy location.
C16_NeverWritesLegacy == Count(writes, IsLegacyWrite) = 0

\* C16 (amended): the load never writes the legacy location (its migration
\* writes the primary store only), and every write of the legacy location
\* comes right after a write of the same data, the registry, to the primary
\* store.
C16_LegacyKeptInSync ==
  /\ event = "LoadResolve" => Count(writes, IsLegacyWrite) = 0
  /\ \A i \in 1..Len(writes) :
       IsLegacyWrite(writes[i]) =>
         /\ i > 1
         /\ writes[i - 1] = FileWrite(writes[i].data)
         /\ writes[i].data = JsonStringify(platforms)

\* C16 witness: the render after a migrating load saves the migrated list to
\* both locations.
C16_SavedAfterMigration ==
  /\ event = "Render"
  /\ loadResult = "legacy"
  /\ Len(platforms) > 0
  /\ Count(writes, IsLegacyWrite) = 1

IsFileWrite(w) == w.target = "save_platforms"

\* C17: after initialization, a step that changes the Platform Registry (add,
\* remove, move, hide, un-hide) issues exactly one write to the primary
\* store, carrying the full registry; a step that leaves the registry as it
\* is issues none, and neither does the completion of the load (the render
\* that follows the load's callback).  The first two are stated for steps
\* from settled states in which all ids are distinct.
C17_OneWritePerMutation ==
  [][LET n == Count(writes', IsFileWrite) IN
     /\ (Settled /\ initialized /\ C6_UniqueIds /\ platforms' # platforms) =>
          /\ n = 1
          /\ \A i \in 1..Len(writes') :
               IsFileWrite(writes'[i]) =>
                 writes'[i].data = JsonStringify(platforms')
     /\ (Settled /\ initialized /\ C6_UniqueIds /\ platforms' = platforms)
          => n = 0
     /\ (event = "LoadResolve" /\ event' = "Render") => n = 0]_vars

\* C18: after initialization, whatever adds, removes, moves and hides were
\* made, loading from the persisted stores yields the Platform Registry as it
\* was at the last write (which is the registry itself once the effects have
\* settled): same length, order, ids, names, urls and hidden flags, also when
\* the registry has become empty.
C18_StoredRoundTrips ==
  (rendered.initialized /\ Settled) =>
    LET loaded == loadPlatformsAsync(TRUE).loaded IN
    /\ Len(loaded) = Len(platforms)
    /\ \A i \in 1..Len(loaded) :
         /\ loaded[i].id = platforms[i].id
         /\ loaded[i].name = platforms[i].name
         /\ loaded[i].url = platforms[i].url
         /\ loaded[i].hidden = platforms[i].hidden

\* C18 witness: a registry that was migrated from the legacy location has
\* just been emptied by a remove, and the write has been made.
C18_EmptiedAfterMigration ==
  /\ event = "removePlatform"
  /\ loadResult = "legacy"
  /\ platforms = <<>>
  /\ HasFileWrite(writes)
  /\ Settled

\* The url that the add form's inputs "x.com" and " x.com " must be stored
\* as; no stored record has it, so it marks the records made by add.
NormalizedAddUrl == <<"https://", "x.com">>

\* C19: starting from an empty registry, an add with a non-blank name and a
\* url without a scheme makes one record whose url is "https://" followed by
\* the trimmed input and makes its id the active id; when the overlay is
\* closed next, the bridge receives showOrCreate for that id with the
\* normalized url, and for no other.
C19_AddActivatesAndShows ==
  [][/\ (event' = "addPlatform" /\ platforms = <<>> /\ platforms' # <<>>) =>
          /\ Len(platforms') = 1
          /\ platforms'[1].url = NormalizedAddUrl
          /\ activeTab' = platforms'[1].id
     /\ (event = "addPlatform" /\ Len(platforms) = 1
           /\ platforms[1].url = NormalizedAddUrl
           /\ activeTab = platforms[1].id /\ event' = "closeSettings") =>
          /\ Count(calls', IsShowOrCreate) >= 1
          /\ \A i \in 1..Len(calls') :
               IsShowOrCreate(calls'[i]) =>
                 /\ calls'[i].id = platforms[1].id
                 /\ calls'[i].url = NormalizedAddUrl]_vars

\* C19 witness: the overlay has just been closed over a registry that holds
\* only the added record, and showOrCreate was issued for it.
C19_ShownAfterAdd ==
  /\ event = "closeSettings"
  /\ Len(platforms) = 1
  /\ tempTabs = <<>>
  /\ platforms[1].name = <<"A">>
  /\ activeTab = platforms[1].id
  /\ \E i \in 1..Len(calls) :
       calls[i] = ShowOrCreate(platforms[1].id, NormalizedAddUrl, 70)

\* C20: while the settings overlay stays open, activeTab changes only in the
\* step of an explicit selection: a click on a record of the panel or on a
\* tab of the strip, an add, or a new_tab_request.
C20_NoImplicitChangeInSettings ==
  [][(showSettings /\ showSettings' /\ activeTab' # activeTab) =>
       event' \in {"panelItemClick", "selectTab", "addPlatform",
                   "NewTabRequest"}]_vars

\* The blank-url records (placeholders) of the Ephemeral Tab Registry.
IsPlaceholder(t) == IsBlank(t.url)

\* C21: a tab record with a blank url exists only while the quick-add popover
\* is open (stated for the ephemeral records, the ones the "+" button makes).
C21_BlankOnlyWhilePopoverOpen ==
  Count(tempTabs, IsPlaceholder) > 0 => showQuickAdd

\* move(i, d) on the list ps exchanges the record at i with its neighbour in
\* direction d and nothing else, and is the identity when there is no such
\* neighbour.
MoveIsSwap(ps, i, d) ==
  LET r == MovePlatform(ps, i, d)
      j == IF d = "up" THEN i - 1 ELSE i + 1
  IN /\ Len(r) = Len(ps)
     /\ IF j \in 1..Len(ps)
        THEN /\ r[i] = ps[j]
             /\ r[j] = ps[i]
             /\ \A k \in 1..Len(ps) : k \notin {i, j} => r[k] = ps[k]
        ELSE r = ps

AffectsActive ==
  \/ /\ event' \in {"removePlatform", "closeTab"}
     /\ calls'[1] = Destroy(activeTab)
  \/ /\ event' = "quickAddCancel"
     /\ tempTabs' # tempTabs

\* C23: when the active tab is removed, hidden, closed or cancelled as a
\* placeholder, the settled active id is the first of the remaining
\* non-hidden persistent tabs followed by the remaining ephemeral tabs, or
\* empty when there is none; when another tab is affected, activeTab stays
\* (stated for steps between settled states in which all ids are distinct).
C23_FallbackToFirstVisible ==
  [][(Settled /\ Settled' /\ C6_UniqueIds
        /\ event' \in {"removePlatform", "closeTab", "quickAddCancel"})
       => IF AffectsActive
          THEN activeTab' = FirstId(VisibleSequence')
          ELSE activeTab' = activeTab]_vars

\* The step changed the hidden flag of the record at row k, to the value
\* flag, and nothing else in either registry.
OnlyFlagChanged(k, flag) ==
  /\ Len(platforms') = Len(platforms)
  /\ k \in 1..Len(platforms)
  /\ platforms[k].hidden # flag
  /\ platforms'[k].hidden = flag
  /\ \A i \in 1..Len(platforms) :
       /\ platforms'[i].id = platforms[i].id
       /\ platforms'[i].name = platforms[i].name
       /\ platforms'[i].url = platforms[i].url
       /\ i # k => platforms'[i].hidden = platforms[i].hidden
  /\ tempTabs' = tempTabs

\* C24: hiding a persistent tab (close on the strip) and un-hiding one (click
\* on a hidden record in the panel) change only the hidden flag of that
\* record, in place, and leave the Ephemeral Tab Registry alone; after the
\* click the record is non-hidden and active.
C24_OnlyHiddenFlagChanges ==
  [][/\ (event' = "closeTab" /\ calls'[1].id \in Ids(platforms)) =>
          OnlyFlagChanged(FindIndex(platforms, calls'[1].id), TRUE)
     /\ (event' = "panelItemClick" /\ platforms' # platforms) =>
          \E k \in 1..Len(platforms) :
            /\ OnlyFlagChanged(k, FALSE)
            /\ activeTab' = platforms'[k].id]_vars

\* C25: an add whose name or url is blank after trimming leaves platforms,
\* tempTabs and activeTab as they are and issues no write and no bridge
\* command (activeTab, writes and commands: with no render pending, since the
\* step also renders what was queued before it); any other add appends
\* exactly one record, with the trimmed name and the normalized url, at the
\* end of the registry and leaves the existing records and their order alone.
C25_BlankAddIsNoOp ==
  [][/\ event' = "addPlatformBlank" =>
          /\ platforms' = platforms
          /\ tempTabs' = tempTabs
          /\ Settled => /\ activeTab' = activeTab
                        /\ writes' = <<>>
                        /\ calls' = <<>>
     /\ event' = "addPlatform" =>
          /\ Len(platforms') = Len(platforms) + 1
          /\ SubSeq(platforms', 1, Len(platforms)) = platforms
          /\ platforms'[Len(platforms')].name = <<"A">>
          /\ platforms'[Len(platforms')].url = NormalizedAddUrl
          /\ tempTabs' = tempTabs]_vars

\* C25 witness: a blank add has just been refused over a registry that holds
\* a record and an ephemeral tab.
C25_BlankAddRefused ==
  /\ event = "addPlatformBlank"
  /\ Len(platforms) > 0
  /\ Len(tempTabs) > 0
  /\ activeTab # EmptyString
  /\ initialized

\* The url that the popover's input "x.com" must be stored as.
NormalizedQuickUrl == <<"https://", "x.com">>

\* The step filled the placeholder of this id: every row keeps its id and its
\* place, the rows of this id get the url, and the other rows do not change.
FilledInPlace(id) ==
  /\ Len(tempTabs') = Len(tempTabs)
  /\ \E k \in 1..Len(tempTabs) : tempTabs[k].id = id /\ IsBlank(tempTabs[k].url)
  /\ \A i \in 1..Len(tempTabs) :
       /\ tempTabs'[i].id = tempTabs[i].id
       /\ IF tempTabs[i].id = id
          THEN tempTabs'[i].url = NormalizedQuickUrl
          ELSE tempTabs'[i] = tempTabs[i]

\* C26: confirming the popover with a non-blank url while the active tab is a
\* blank-url placeholder fills that placeholder in place (same id, same
\* position, no record added or removed), closes the popover and leaves
\* activeTab as it is; confirming with a blank url leaves all state as it is
\* and the popover open.  activeTab is compared when no render is pending,
\* since the handler's step also renders what an earlier step queued.
C26_ConfirmFillsPlaceholder ==
  [][/\ (event' = "quickAddConfirm" /\ CurrentPlaceholder # 0) =>
          /\ FilledInPlace(rendered.activeTab)
          /\ platforms' = platforms
          /\ ~showQuickAdd'
          /\ (Settled => activeTab' = activeTab)
     /\ event' = "quickAddConfirmBlank" =>
          /\ platforms' = platforms
          /\ tempTabs' = tempTabs
          /\ (Settled => activeTab' = activeTab)
          /\ showQuickAdd' /\ showQuickAdd
          /\ showSettings' = showSettings]_vars


\* C26 witness: a confirm has filled the placeholder that stands first of two
\* ephemeral tabs, and it is still the active tab with the popover closed.
C26_FilledFirstOfTwo ==
  /\ event = "quickAddConfirm"
  /\ Len(tempTabs) = 2
  /\ Len(tempTabs[1].id) > 4
  /\ SubSeq(tempTabs[1].id, 1, 4) = <<"tmp", "-", "new", "-">>
  /\ tempTabs[1].url = NormalizedQuickUrl
  /\ tempTabs[2].id # tempTabs[1].id
  /\ activeTab = tempTabs[1].id
  /\ ~showQuickAdd


\* C27: the settings overlay and the quick-add popover are never open at the
\* same time; a step that opens the overlay leaves the popover closed, and
\* the '+' button acts only while the overlay is closed (and leaves it
\* closed).
C27_OverlayExcludesPopover ==
  /\ []~(showSettings /\ showQuickAdd)
  /\ [][/\ event' = "openSettings" => showSettings' /\ ~showQuickAdd'
        /\ event' = "addButtonClick" => ~showSettings /\ ~showSettings']_vars

\* C27 witness: the overlay was opened over a placeholder that the '+' button
\* had created with the popover, and the popover is closed.
C27_OpenedOverPlaceholder ==
  /\ event = "openSettings"
  /\ showSettings
  /\ ~showQuickAdd
  /\ Count(tempTabs, IsPlaceholder) > 0


\* C28: the ephemeral registry holds at most one record with a blank url
\* (stated for registries whose ids are distinct).
C28_AtMostOnePlaceholder ==
  C6_UniqueIds => Count(tempTabs, IsPlaceholder) <= 1


\* The call names an ephemeral tab or a persistent tab that is not hidden.
NamesVisibleTab(c) ==
  \/ c.id \in Ids(tempTabs)
  \/ \E i \in 1..Len(platforms) : platforms[i].id = c.id /\ ~IsHidden(platforms[i])

\* C29: every showOrCreate a step issues names a non-hidden persistent tab
\* or an ephemeral tab, the steps before the reconciliation effect has
\* re-selected included (stated for registries whose ids are distinct).
C29_NeverShowsHidden ==
  C6_UniqueIds =>
    \A i \in 1..Len(calls) : IsShowOrCreate(calls[i]) => NamesVisibleTab(calls[i])


\* C30: whatever the two stores hold and whether or not the primary read
\* succeeds, the initialized flag becomes true and is rendered; once true it
\* stays true; and from then on every step that changes the persistent
\* registry writes it.
C30_InitializedForGood ==
  /\ <>(initialized /\ rendered.initialized)
  /\ [][/\ initialized => initialized'
        /\ rendered.initialized => rendered.initialized'
        /\ (rendered.initialized /\ platforms' # platforms) =>
             \E i \in 1..Len(writes') :
               IsFileWrite(writes'[i]) /\ writes'[i].data = JsonStringify(platforms')]_vars

\* C30 witness: neither store gave a registry, the load ended with the empty
\* one, and the render that follows has the flag set and saves the registry.
C30_InitializedAfterBothFail ==
  /\ event = "Render"
  /\ loadResult = "empty"
  /\ platforms = <<>>
  /\ initialized
  /\ rendered.initialized
  /\ writes # <<>>
====
